---- MODULE Spec2Model ----
(***************************************************************************)
(* Console front-end for a hosted agent service                            *)
(* (src/agents_toeic_console.py).  The program is one sequential flow:     *)
(* configuration, ensure_agent, create_thread, the input loop of main      *)
(* (append_user_message, run_agent, show_latest per turn) and the cleanup  *)
(* of main's finally block.  Each action is one blocking call of that      *)
(* flow together with the control flow that follows it up to the next      *)
(* blocking call.  The remote service and the console input are the        *)
(* environment: every outcome a call can have is a nondeterministic        *)
(* choice.                                                                 *)
(***************************************************************************)
EXTENDS Integers, Sequences, FiniteSets, TLC

VARIABLES
    pc,          \* position of the control flow
    endpoint,    \* PROJECT_ENDPOINT as read from the environment
    existingId,  \* EXISTING_AGENT_ID as read from the environment
    agent,       \* id of the agent handle held by main ("none" before ensure_agent)
    createdNew,  \* created_new of main
    threadId,    \* id of the thread handle held by main ("none" before create_thread)
    thread,      \* the remote thread: sequence of messages, oldest first
    inputs,      \* number of lines input() has returned so far
    userText,    \* user_text of main: the trimmed line, a sequence of characters
    turn,        \* what the current (or last) turn did
    calls,       \* number of remote calls of each startup / cleanup kind issued
    exc,         \* the exception raised by the last step (NoExc when it completed)
    lastPrint,   \* the last message written to the console
    cleanupPrint,\* what the cleanup step of main's finally block printed
    shown,       \* show_latest: the list fetch_messages gave and the value returned
    runs,        \* runs of the thread on the service that are not in a terminal state
    sent,        \* the trimmed lines whose messages.create call returned, in order
    trigger,     \* how the loop was left: "none", "q", "eof", "interrupt", "error"
    exit         \* how the process ended: "running", "normal", "SystemExit",
                 \* "error" (Exception reported by __main__), "KeyboardInterrupt"

vars == <<pc, endpoint, existingId, agent, createdNew, threadId, thread, inputs,
          userText, turn, calls, exc, lastPrint, cleanupPrint, shown, runs, sent,
          trigger, exit>>

-----------------------------------------------------------------------------
(* Bounds                                                                  *)

\* The console delivers at most this many lines before the stream ends.
MaxInputs == 2

\* Messages of a listed thread and text segments of one message, for the
\* specification that applies show_latest to every thread content.
MaxMsgs == 3
MaxSegs == 3

-----------------------------------------------------------------------------
(* Values of the environment                                               *)

None == "None"

\* Values os.environ.get can give for PROJECT_ENDPOINT: unset, empty, a URL.
Endpoints == {None, "", "https://x/api/projects/p"}

\* Values os.environ.get can give for AGENT_ID: unset, empty, an id.
AgentIds == {None, "", "asst_old"}

\* Characters of an input line; Whitespace is what str.strip removes.
Whitespace == {" ", "\t"}

\* Lines input() can return (without the newline), as sequences of characters.
Lines ==
    { <<>>, <<" ">>, <<"q">>, <<"Q">>, <<" ", "Q", "\t">>, <<"q", "q">>,
      <<" ", "a">>, <<"a", " ", "B">> }

\* Status code of a not-found HttpResponseError.
NotFound == 404

NoExc == [kind |-> "none", status |-> 0, msg |-> "none"]

\* HttpResponseError instances the service can raise: status code and message.
HttpErrors ==
    { [kind |-> "HttpResponseError", status |-> NotFound, msg |-> "Not Found"],
      [kind |-> "HttpResponseError", status |-> 400, msg |-> "No assistant found"],
      [kind |-> "HttpResponseError", status |-> 403, msg |-> "Forbidden"],
      [kind |-> "HttpResponseError", status |-> 500, msg |-> "Internal error"] }

\* Errors that are Exception but not HttpResponseError (connection failure, ...).
OtherErrors == { [kind |-> "Exception", status |-> 0, msg |-> "connection failed"] }

\* Ctrl+C: KeyboardInterrupt is a BaseException, not an Exception.
Interrupt == [kind |-> "KeyboardInterrupt", status |-> 0, msg |-> "none"]

\* What a remote call can do instead of returning.
Failures == HttpErrors \cup OtherErrors \cup {Interrupt}

\* Errors seen inside a turn: a smaller set keeps the turn's states apart only
\* by what the handlers of main distinguish.
TurnFailures ==
    { e \in Failures : e.kind # "HttpResponseError" \/ e.status = 500 }

\* Terminal states in which create_and_process returns the run.
RunStatuses == {"completed", "failed", "cancelled", "expired"}

\* last_error of a failed run.
LastErrors == {"rate_limit_exceeded", "server_error"}

\* Text segments of the message a completed run adds to the thread.
AgentReplies == { <<>>, << <<"r", "1">> >>, << <<"r", "1">>, <<"r", "2">> >> }

\* What show_latest prints for a thread without text.
Placeholder == <<"(no messages)">>

NoTurn ==
    [append |-> 0, appendOk |-> FALSE, run |-> 0, runStatus |-> "none",
     lastError |-> None, runReturned |-> FALSE, seen |-> <<>>, show |-> 0]

\* delete holds the agent ids delete_agent was called with, in call order.
NoCalls == [get |-> 0, create |-> 0, thread |-> 0, delete |-> <<>>]

Msg(kind, text) == [kind |-> kind, text |-> text]

\* show_latest before its first call.
NoShown == [messages |-> <<>>, latest |-> <<>>]

\* active: runs created and not yet terminal; abandoned: how many of them
\* create_and_process stopped waiting for because it raised.
NoRuns == [active |-> 0, abandoned |-> 0]

-----------------------------------------------------------------------------
(* Pure helpers                                                            *)

RECURSIVE LStrip(_)
LStrip(s) ==
    IF s # <<>> /\ Head(s) \in Whitespace THEN LStrip(Tail(s)) ELSE s

RECURSIVE RStrip(_)
RStrip(s) ==
    IF s # <<>> /\ s[Len(s)] \in Whitespace
    THEN RStrip(SubSeq(s, 1, Len(s) - 1))
    ELSE s

\* str.strip(): leading and trailing whitespace removed, the inside kept.
Strip(s) == RStrip(LStrip(s))

LowerChar(c) ==
    CASE c = "Q" -> "q"
      [] c = "A" -> "a"
      [] c = "B" -> "b"
      [] OTHER -> c

\* str.lower()
Lower(s) == [i \in 1..Len(s) |-> LowerChar(s[i])]

\* Mutant: `if PROJECT_ENDPOINT is None`, which lets the empty string through.
EndpointMissingNoneOnly(ep) == ep = None

\* `if not PROJECT_ENDPOINT`: None and the empty string are falsy.
EndpointMissing(ep) == ep = None \/ ep = ""

\* `if EXISTING_AGENT_ID`: None and the empty string are falsy.
UseExisting(id) == ~(id = None \/ id = "")

\* Mutant: the comparison without lower().
IsQuitCaseSensitive(t) == t = <<"q">>

\* `user_text.lower() == "q"`
IsQuit(t) == Lower(t) = <<"q">>

\* Mutant: the empty-line test left out.
IsEmptyNever(t) == FALSE

\* `not user_text`
IsEmpty(t) == t = <<>>

\* `except Exception` / `except HttpResponseError` of a turn: KeyboardInterrupt
\* is not an Exception and passes through.
IsException(e) == e.kind \in {"HttpResponseError", "Exception", "RuntimeError"}

\* Mutant: a turn without the `except Exception` handler.
TurnCatchesHttpOnly(e) == e.kind = "HttpResponseError"

\* Mutant: a bare `except:` in the turn, which also takes KeyboardInterrupt.
TurnCatchesAll(e) == TRUE

TurnCatches(e) == IsException(e)

\* Mutant: the status test never true (the failure only logged).
RunFailedNever(status) == FALSE

\* `run.status == "failed"`
RunFailed(status) == status = "failed"

\* `"no assistant" in str(e).lower() or e.status_code == 404`
MsgLower(m) ==
    CASE m = "No assistant found" -> "no assistant found"
      [] m = "Not Found" -> "not found"
      [] m = "Forbidden" -> "forbidden"
      [] m = "Internal error" -> "internal error"
      [] OTHER -> m

HasNoAssistant(m) == m \in {"no assistant found"}

IsAbsent(e) == HasNoAssistant(MsgLower(e.msg)) \/ e.status = NotFound

\* Mutant: safe_delete_agent without the `except Exception` handler.
DeleteCatchesHttpOnly(e) == e.kind = "HttpResponseError"

\* The handlers of safe_delete_agent: HttpResponseError, then Exception.
DeleteCatches(e) == IsException(e)

\* Mutant: the finally block deleting whatever agent the session used.
ShouldDeleteAlways(created) == TRUE

\* `if created_new` of main's finally block.
ShouldDelete(created) == created

\* Mutant: the text lower-cased before it is sent.
MessageContentLowered(t) == Lower(t)

\* `content=content`: append_user_message passes the text on as it is.
MessageContent(t) == t

\* Mutant: messages.list without the order argument, which lists newest first.
ListOrderDefault == "desc"

\* `order=ListSortOrder.ASCENDING`
ListOrder == "asc"

RECURSIVE Reverse(_)
Reverse(q) == IF q = <<>> THEN <<>> ELSE Reverse(Tail(q)) \o <<Head(q)>>

\* messages.list: the messages of the thread in the order asked for; the
\* thread holds them in creation order.
ListMessages(th) == IF ListOrder = "asc" THEN th ELSE Reverse(th)

\* Mutant: runs.create in place of create_and_process, which does not wait.
WaitsForRunNot == FALSE

\* create_and_process creates the run and waits until it is terminal.
WaitsForRun == TRUE

-----------------------------------------------------------------------------
Init ==
    /\ pc = "config"
    /\ endpoint \in Endpoints
    /\ existingId \in AgentIds
    /\ agent = "none"
    /\ createdNew = FALSE
    /\ threadId = "none"
    /\ thread = <<>>
    /\ inputs = 0
    /\ userText = <<>>
    /\ turn = NoTurn
    /\ calls = NoCalls
    /\ exc = NoExc
    /\ lastPrint = Msg("none", <<>>)
    /\ cleanupPrint = "none"
    /\ shown = NoShown
    /\ runs = NoRuns
    /\ sent = <<>>
    /\ trigger = "none"
    /\ exit = "running"

\* The process ends: nothing runs after it.
End(how, e, print) ==
    /\ pc' = "done"
    /\ exit' = how
    /\ exc' = e
    /\ lastPrint' = print

\* Module level: the endpoint check and the construction of the client.
Configure ==
    /\ pc = "config"
    /\ IF EndpointMissing(endpoint)
       THEN End("SystemExit", [kind |-> "SystemExit", status |-> 0, msg |-> "endpoint"],
                Msg("SystemExit", <<"endpoint">>))
       ELSE /\ pc' = "ensure"
            /\ UNCHANGED <<exit, exc, lastPrint>>
    /\ UNCHANGED <<endpoint, existingId, agent, createdNew, threadId, thread,
                   inputs, userText, turn, calls, cleanupPrint, trigger,
                   shown, runs, sent>>

\* An exception leaves main before the try block is entered (or leaves the
\* module): SystemExit and KeyboardInterrupt end the process as they are, any
\* other Exception is reported by the handler of __main__.
Escape(e) ==
    IF e.kind \in {"SystemExit", "KeyboardInterrupt"}
    THEN End(e.kind, e, Msg(e.kind, <<e.msg>>))
    ELSE End("error", e, Msg("error", <<e.msg>>))

\* Mutant: a failed fetch falling back to create_agent.
GetRaisedFallsBack(e) ==
    /\ calls' = [calls EXCEPT !.get = @ + 1, !.create = @ + 1]
    /\ agent' = "asst_new"
    /\ createdNew' = TRUE
    /\ pc' = "thread"
    /\ exc' = NoExc
    /\ lastPrint' = Msg("created_agent", <<"asst_new">>)
    /\ UNCHANGED exit

\* get_agent raised e inside ensure_agent: an HttpResponseError becomes
\* SystemExit, anything else leaves ensure_agent as it is.
GetRaised(e) ==
    /\ calls' = [calls EXCEPT !.get = @ + 1]
    /\ IF e.kind = "HttpResponseError"
       THEN Escape([kind |-> "SystemExit", status |-> e.status, msg |-> e.msg])
       ELSE Escape(e)
    /\ UNCHANGED <<agent, createdNew>>

\* ensure_agent with an existing-agent id configured: get_agent.
EnsureGet ==
    /\ pc = "ensure"
    /\ UseExisting(existingId)
    /\ \/ /\ calls' = [calls EXCEPT !.get = @ + 1]
          /\ agent' = existingId
          /\ createdNew' = FALSE
          /\ pc' = "thread"
          /\ exc' = NoExc
          /\ UNCHANGED <<exit, lastPrint>>
       \/ \E e \in Failures : GetRaised(e)
    /\ UNCHANGED <<endpoint, existingId, threadId, thread, inputs, userText, turn,
                   cleanupPrint, trigger,
                   shown, runs, sent>>

\* ensure_agent without an existing-agent id: create_agent.
EnsureCreate ==
    /\ pc = "ensure"
    /\ ~UseExisting(existingId)
    /\ calls' = [calls EXCEPT !.create = @ + 1]
    /\ \/ /\ agent' = "asst_new"
          /\ createdNew' = TRUE
          /\ pc' = "thread"
          /\ exc' = NoExc
          /\ lastPrint' = Msg("created_agent", <<"asst_new">>)
          /\ UNCHANGED exit
       \/ \E e \in Failures :
            /\ Escape(e)
            /\ UNCHANGED <<agent, createdNew>>
    /\ UNCHANGED <<endpoint, existingId, threadId, thread, inputs, userText, turn,
                   cleanupPrint, trigger,
                   shown, runs, sent>>

\* create_thread, then the first prompt of main.
create_thread ==
    /\ pc = "thread"
    /\ calls' = [calls EXCEPT !.thread = @ + 1]
    /\ \/ /\ threadId' = "thread_1"
          /\ pc' = "input"
          /\ exc' = NoExc
          /\ lastPrint' = Msg("first_prompt", <<>>)
          /\ UNCHANGED exit
       \/ \E e \in Failures :
            /\ Escape(e)
            /\ UNCHANGED threadId
    /\ UNCHANGED <<endpoint, existingId, agent, createdNew, thread, inputs, userText,
                   turn, cleanupPrint, trigger,
                   shown, runs, sent>>

\* The loop is left for the finally block of main.
Leave(how, e, print) ==
    /\ pc' = "cleanup"
    /\ trigger' = how
    /\ exc' = e
    /\ lastPrint' = print

\* input() and the tests on the trimmed line.
ReadInput ==
    /\ pc = "input"
    /\ \/ \E line \in Lines :
            /\ inputs < MaxInputs
            /\ inputs' = inputs + 1
            /\ userText' = Strip(line)
            /\ turn' = NoTurn
            /\ IF IsQuit(Strip(line))
               THEN Leave("q", NoExc, Msg("quit", <<>>))
               ELSE /\ pc' = IF IsEmpty(Strip(line)) THEN "input" ELSE "append"
                    /\ exc' = NoExc
                    /\ UNCHANGED <<trigger, lastPrint>>
       \/ /\ Leave("eof", [kind |-> "EOFError", status |-> 0, msg |-> "none"],
                   Msg("eof", <<>>))
          /\ UNCHANGED <<inputs, userText, turn>>
       \/ /\ Leave("interrupt", Interrupt, Msg("ctrl_c", <<>>))
          /\ UNCHANGED <<inputs, userText, turn>>
    /\ UNCHANGED <<endpoint, existingId, agent, createdNew, threadId, thread, calls,
                   cleanupPrint, exit,
                   shown, runs, sent>>

\* Mutant: every call of the turn in a try block of its own, so that the
\* turn goes on with its next call after an error.
TurnRaisePerCall(e) ==
    /\ exc' = e
    /\ IF IsException(e)
       THEN /\ pc' = CASE pc = "append" -> "run"
                       [] pc \in {"run", "wait"} -> "show"
                       [] OTHER -> "input"
            /\ lastPrint' = Msg("service_error", <<e.msg>>)
            /\ UNCHANGED trigger
       ELSE /\ pc' = "cleanup"
            /\ trigger' = "interrupt"
            /\ lastPrint' = Msg("ctrl_c", <<>>)

\* An exception raised inside the inner try block of a turn: the two handlers
\* of the turn, then the KeyboardInterrupt handler of the outer try; anything
\* else runs the finally block and goes on to __main__.
TurnRaise(e) ==
    /\ exc' = e
    /\ IF TurnCatches(e)
       THEN /\ pc' = "input"
            /\ lastPrint' = IF e.kind = "HttpResponseError"
                            THEN Msg("service_error", <<e.msg>>)
                            ELSE Msg("unexpected_error", <<e.msg>>)
            /\ UNCHANGED trigger
       ELSE /\ pc' = "cleanup"
            /\ IF e.kind = "KeyboardInterrupt"
               THEN /\ trigger' = "interrupt"
                    /\ lastPrint' = Msg("ctrl_c", <<>>)
               ELSE /\ trigger' = "error"
                    /\ UNCHANGED lastPrint

\* append_user_message: messages.create with role user and the text as it is.
append_user_message ==
    /\ pc = "append"
    /\ \/ /\ thread' = Append(thread, [role |-> "user",
                                      segs |-> <<MessageContent(userText)>>])
          /\ sent' = Append(sent, userText)
          /\ turn' = [turn EXCEPT !.append = @ + 1, !.appendOk = TRUE]
          /\ pc' = "run"
          /\ exc' = NoExc
          /\ UNCHANGED <<lastPrint, trigger>>
       \/ \E e \in TurnFailures :
            /\ turn' = [turn EXCEPT !.append = @ + 1]
            /\ TurnRaise(e)
            /\ UNCHANGED <<thread, sent>>
    /\ UNCHANGED <<endpoint, existingId, agent, createdNew, threadId, inputs,
                   userText, calls, cleanupPrint, shown, runs, exit>>

\* run_agent, first part: create_and_process creates the run on the thread.
\* The run works on the messages the thread holds at that moment.
run_create ==
    /\ pc = "run"
    /\ \/ /\ runs' = [runs EXCEPT !.active = @ + 1]
          /\ IF WaitsForRun
             THEN /\ turn' = [turn EXCEPT !.run = @ + 1, !.runStatus = "in_progress",
                                          !.seen = thread]
                  /\ pc' = "wait"
             ELSE /\ turn' = [turn EXCEPT !.run = @ + 1, !.runStatus = "queued",
                                          !.seen = thread, !.runReturned = TRUE]
                  /\ pc' = "show"
          /\ exc' = NoExc
          /\ UNCHANGED <<lastPrint, trigger>>
       \/ \E e \in TurnFailures :
            /\ turn' = [turn EXCEPT !.run = @ + 1, !.runStatus = "raised"]
            /\ TurnRaise(e)
            /\ UNCHANGED runs
    /\ UNCHANGED <<endpoint, existingId, agent, createdNew, threadId, thread, inputs,
                   userText, calls, cleanupPrint, shown, sent, exit>>

\* run_agent, second part: create_and_process waits until the run is
\* terminal, then the test of the run's status.  When the wait raises, the
\* run is not cancelled: it stays on the thread as it is.
run_agent ==
    /\ pc = "wait"
    /\ \/ \E status \in RunStatuses, reply \in AgentReplies, err \in LastErrors :
            /\ (status # "completed") => reply = <<>>
            /\ (status # "failed") => err = "server_error"
            /\ runs' = [runs EXCEPT !.active = @ - 1]
            /\ thread' = IF status = "completed"
                         THEN Append(thread, [role |-> "agent", segs |-> reply])
                         ELSE thread
            /\ IF RunFailed(status)
               THEN /\ turn' = [turn EXCEPT !.runStatus = status, !.lastError = err]
                    /\ TurnRaise([kind |-> "RuntimeError", status |-> 0, msg |-> err])
               ELSE /\ turn' = [turn EXCEPT !.runStatus = status,
                                            !.lastError = IF status = "failed"
                                                          THEN err ELSE None,
                                            !.runReturned = TRUE]
                    /\ pc' = "show"
                    /\ exc' = NoExc
                    /\ UNCHANGED <<lastPrint, trigger>>
       \/ \E e \in TurnFailures :
            /\ turn' = [turn EXCEPT !.runStatus = "raised"]
            /\ runs' = [runs EXCEPT !.abandoned = @ + 1]
            /\ TurnRaise(e)
            /\ UNCHANGED thread
    /\ UNCHANGED <<endpoint, existingId, agent, createdNew, threadId, inputs,
                   userText, calls, cleanupPrint, shown, sent, exit>>

\* The service: a run nobody waits for any more reaches a terminal state
\* while the console waits for the next line; a completed one adds its reply.
run_ends ==
    /\ pc = "input"
    /\ runs.abandoned > 0
    /\ runs' = [active |-> runs.active - 1, abandoned |-> runs.abandoned - 1]
    /\ \/ thread' = thread
       \/ thread' = Append(thread, [role |-> "agent", segs |-> << <<"r", "1">> >>])
    /\ UNCHANGED <<pc, endpoint, existingId, agent, createdNew, threadId, inputs,
                   userText, turn, calls, exc, lastPrint, cleanupPrint, shown, sent,
                   trigger, exit>>

\* fetch_messages: the last text segment of every message that has one.
RECURSIVE fetch_messages(_)
fetch_messages(msgs) ==
    IF msgs = <<>>
    THEN <<>>
    ELSE LET m == Head(msgs)
             rest == fetch_messages(Tail(msgs))
         IN  IF m.segs # <<>> THEN <<m.segs[Len(m.segs)]>> \o rest ELSE rest

\* Mutant: the first element taken for the last.
LatestFirst(messages) ==
    IF messages # <<>> THEN messages[1] ELSE Placeholder

\* `messages[-1] if messages else "(no messages)"`
Latest(messages) ==
    IF messages # <<>> THEN messages[Len(messages)] ELSE Placeholder

\* show_latest: messages.list through fetch_messages, then the framed print.
show_latest ==
    /\ pc = "show"
    /\ turn' = [turn EXCEPT !.show = @ + 1]
    /\ \/ LET messages == fetch_messages(ListMessages(thread))
              latest == Latest(messages)
          IN  /\ shown' = [messages |-> messages, latest |-> latest]
              /\ lastPrint' = Msg("reply", latest)
              /\ pc' = "input"
              /\ exc' = NoExc
              /\ UNCHANGED trigger
       \/ \E e \in TurnFailures :
            /\ TurnRaise(e)
            /\ UNCHANGED shown
    /\ UNCHANGED <<endpoint, existingId, agent, createdNew, threadId, thread, inputs,
                   userText, calls, cleanupPrint, runs, sent, exit>>

\* What safe_delete_agent prints for the outcome of delete_agent.
DeletePrint(e) ==
    IF e = NoExc THEN "cleaned_up"
    ELSE IF e.kind = "HttpResponseError"
         THEN IF IsAbsent(e) THEN "already_absent" ELSE "delete_warning"
         ELSE "delete_unexpected"

\* The end of main's finally block: the shutdown message; an exception no
\* handler of main caught goes on to __main__ after it.
Shutdown(e) ==
    IF trigger = "error"
    THEN End("error", e, Msg("error", <<>>))
    ELSE End("normal", e, Msg("shutdown", <<>>))

\* The finally block of main for an agent created in this session:
\* safe_delete_agent, then the shutdown message.
CleanupDelete ==
    /\ pc = "cleanup"
    /\ ShouldDelete(createdNew)
    /\ calls' = [calls EXCEPT !.delete = Append(@, agent)]
    /\ \E e \in {NoExc} \cup Failures :
         IF e = NoExc \/ DeleteCatches(e)
         THEN /\ cleanupPrint' = DeletePrint(e)
              /\ Shutdown(e)
         ELSE /\ UNCHANGED cleanupPrint
              /\ Escape(e)
    /\ UNCHANGED <<endpoint, existingId, agent, createdNew, threadId, thread, inputs,
                   userText, turn, trigger,
                   shown, runs, sent>>

\* The finally block of main for a pre-existing agent.
CleanupKeep ==
    /\ pc = "cleanup"
    /\ ~ShouldDelete(createdNew)
    /\ cleanupPrint' = "kept_existing"
    /\ Shutdown(NoExc)
    /\ UNCHANGED <<endpoint, existingId, agent, createdNew, threadId, thread, inputs,
                   userText, turn, calls, trigger,
                   shown, runs, sent>>

Next ==
    \/ Configure
    \/ EnsureGet
    \/ EnsureCreate
    \/ create_thread
    \/ ReadInput
    \/ append_user_message
    \/ run_create
    \/ run_agent
    \/ run_ends
    \/ show_latest
    \/ CleanupDelete
    \/ CleanupKeep

Spec == Init /\ [][Next]_vars

-----------------------------------------------------------------------------
(* show_latest on every thread content                                     *)

Digit(n) ==
    CASE n = 0 -> "0" [] n = 1 -> "1" [] n = 2 -> "2" [] n = 3 -> "3"
      [] n = 4 -> "4" [] n = 5 -> "5" [] n = 6 -> "6" [] n = 7 -> "7"
      [] n = 8 -> "8" [] OTHER -> "9"

\* The text of segment j of message i: every segment of a thread has a text
\* of its own, so that the place a fetched text came from can be told.
SegText(i, j) == <<"m", Digit(i), "s", Digit(j)>>

\* Message i of a thread, with n text segments.
MessageOf(i, role, n) ==
    [role |-> role, segs |-> [j \in 1..n |-> SegText(i, j)]]

\* The threads of up to MaxMsgs messages of either role, each with up to
\* MaxSegs text segments, in creation order.
Threads ==
    UNION { { [i \in 1..k |-> MessageOf(i, roles[i], counts[i])] :
                roles \in [1..k -> {"user", "agent"}],
                counts \in [1..k -> 0..MaxSegs] } :
            k \in 0..MaxMsgs }

\* A session at the call of show_latest, the thread holding any content.
FetchInit ==
    /\ pc = "show"
    /\ thread \in Threads
    /\ endpoint = "https://x/api/projects/p"
    /\ existingId = None
    /\ agent = "asst_new"
    /\ createdNew = TRUE
    /\ threadId = "thread_1"
    /\ inputs = 1
    /\ userText = <<"a">>
    /\ turn = [NoTurn EXCEPT !.append = 1, !.appendOk = TRUE, !.run = 1,
                             !.runStatus = "completed", !.runReturned = TRUE]
    /\ calls = [NoCalls EXCEPT !.create = 1, !.thread = 1]
    /\ exc = NoExc
    /\ lastPrint = Msg("first_prompt", <<>>)
    /\ cleanupPrint = "none"
    /\ shown = NoShown
    /\ runs = NoRuns
    /\ sent = << <<"a">> >>
    /\ trigger = "none"
    /\ exit = "running"

FetchNext == show_latest

FetchSpec == FetchInit /\ [][FetchNext]_vars

-----------------------------------------------------------------------------
TypeOK ==
    /\ pc \in {"config", "ensure", "thread", "input", "append", "run", "wait",
               "show", "cleanup", "done"}
    /\ inputs \in 0..MaxInputs
    /\ createdNew \in BOOLEAN
    /\ exit \in {"running", "normal", "SystemExit", "error", "KeyboardInterrupt"}
    /\ trigger \in {"none", "q", "eof", "interrupt", "error"}

-----------------------------------------------------------------------------
(* Properties                                                              *)

\* The turn of the last line read has ended and the loop waits for input again.
TurnDone == pc = "input" /\ inputs > 0 /\ userText # <<>>

\* The loop was left by "q", end of input or an interrupt, and the process ended.
Exited == pc = "done" /\ trigger \in {"q", "eof", "interrupt"}

\* The number of remote calls issued so far in startup, the turn and cleanup.
StartupCalls == calls.get + calls.create + calls.thread
TurnCalls == turn.append + turn.run + turn.show

\* C1 as stated: every turn of a non-empty, non-"q" line makes exactly one
\* append, one run and one show_latest call, whatever failed.
C1_ExactlyOneEach ==
    TurnDone => turn.append = 1 /\ turn.run = 1 /\ turn.show = 1

\* C1 amended: a turn that is not cut by an interrupt makes exactly one append
\* call; run_agent is called once if the append succeeded and not at all
\* otherwise; show_latest is called once if create_and_process returned a run
\* whose status is not "failed" and not at all otherwise; whatever failed,
\* the loop goes back to waiting for input.
C1_TurnCalls ==
    /\ [](/\ turn.append <= 1 /\ turn.run <= 1 /\ turn.show <= 1
          /\ pc \in {"run", "wait", "show"} => turn.append = 1
          /\ TurnDone =>
               /\ turn.append = 1
               /\ turn.run = IF turn.appendOk THEN 1 ELSE 0
               /\ turn.show = IF turn.run = 1
                                  /\ turn.runStatus \in RunStatuses \ {"failed"}
                               THEN 1 ELSE 0)
    /\ [][(pc \in {"append", "run", "wait", "show"}
           /\ exc'.kind # "KeyboardInterrupt")
            => (pc' \in {"run", "wait", "show", "input"} /\ exit' = "running")]_vars

\* C1 witness: a turn whose run failed has ended without show_latest and the
\* loop waits again.
C1_Witness ==
    TurnDone /\ turn.appendOk /\ turn.runStatus = "failed" /\ turn.show = 0

\* C2 as stated: however the loop was left, one delete attempt for a new
\* agent, none for a pre-existing one, and the shutdown message is printed.
C2_AlwaysShutdownMessage ==
    Exited =>
      /\ Len(calls.delete) = IF createdNew THEN 1 ELSE 0
      /\ lastPrint.kind = "shutdown"

\* C2 amended: however the loop was left (q, end of input, interrupt), cleanup
\* runs once: exactly one delete_agent call, with the id of the agent, if the
\* agent was created in this session, none if it was pre-existing, and none
\* before the loop was left; the shutdown message is printed after the cleanup
\* step unless an interrupt cuts the delete call itself; nothing follows the
\* shutdown message.
C2_CleanupOnce ==
    /\ [](/\ Exited => calls.delete = IF createdNew THEN <<agent>> ELSE <<>>
          /\ ~Exited => calls.delete = <<>>
          /\ (Exited /\ exc.kind # "KeyboardInterrupt") =>
               /\ lastPrint.kind = "shutdown"
               /\ exit = "normal"
               /\ cleanupPrint # "none"
          /\ lastPrint.kind = "shutdown" => Exited /\ cleanupPrint # "none")
    /\ [][lastPrint.kind # "shutdown"]_vars

\* C2 witness: a session with a new agent left by end of input, the agent
\* deleted and the shutdown message printed.
C2_Witness ==
    /\ Exited /\ trigger = "eof" /\ createdNew
    /\ calls.delete = <<"asst_new">>
    /\ cleanupPrint = "cleaned_up"
    /\ lastPrint.kind = "shutdown"

\* C3 as stated (second sentence): a process that ended with an error ended
\* on a missing endpoint or on a failed fetch of the existing agent.
C3_OnlyConfigAndFetch ==
    exit \in {"SystemExit", "error"} =>
      EndpointMissing(endpoint) \/ (calls.get = 1 /\ agent = "none")

\* C3 amended: an error raised in a turn by append_user_message, run_agent or
\* show_latest is contained: its message is printed, the process goes on, no
\* cleanup call is made and the loop waits for input again.  The errors that
\* end the process are a missing endpoint and a failure of a startup call:
\* get_agent for a configured id, create_agent, or create_thread.
C3_TurnErrorsContained ==
    /\ [][(pc \in {"append", "run", "wait", "show"} /\ IsException(exc')) =>
            /\ pc' = "input"
            /\ exit' = "running"
            /\ trigger' = "none"
            /\ lastPrint' = Msg(IF exc'.kind = "HttpResponseError"
                                THEN "service_error" ELSE "unexpected_error",
                                <<exc'.msg>>)
            /\ calls' = calls
            /\ cleanupPrint' = "none"]_vars
    /\ [](exit \in {"SystemExit", "error"} =>
            /\ pc = "done" /\ inputs = 0 /\ turn = NoTurn /\ trigger = "none"
            /\ \/ EndpointMissing(endpoint) /\ StartupCalls = 0
               \/ /\ ~EndpointMissing(endpoint)
                  /\ StartupCalls \in {1, 2}
                  /\ threadId = "none")

\* C3 witness: a turn in which run_agent raised its run-failed error ended
\* with the error printed and the loop waiting.
C3_Witness ==
    /\ TurnDone /\ exc.kind = "RuntimeError"
    /\ lastPrint = Msg("unexpected_error", <<exc.msg>>)
    /\ exit = "running"

\* get_agent was called for the configured id and did not return an agent.
FetchFailed == calls.get = 1 /\ agent = "none"

\* C4: with an existing-agent id configured create_agent is never called,
\* and when the fetch of that agent fails the process ends at once: no
\* thread, no turn, no delete; a service error ends it with SystemExit
\* carrying the error.
C4_FetchFailureAborts ==
    /\ existingId = "asst_old" =>
         /\ calls.create = 0 /\ ~createdNew
         /\ agent \in {"none", "asst_old"}
         /\ threadId # "none" => calls.get = 1 /\ agent = "asst_old"
    /\ FetchFailed =>
         /\ existingId = "asst_old"
         /\ pc = "done"
         /\ exit \in {"SystemExit", "error", "KeyboardInterrupt"}
         /\ exc.kind \in {"SystemExit", "Exception", "KeyboardInterrupt"}
         /\ exc.kind = "SystemExit" <=> exc.status # 0
         /\ calls = [NoCalls EXCEPT !.get = 1]
         /\ threadId = "none" /\ thread = <<>>
         /\ inputs = 0 /\ turn = NoTurn /\ trigger = "none"

\* C4 witness: the fetch reported not-found and the process ended by SystemExit.
C4_Witness ==
    FetchFailed /\ exit = "SystemExit" /\ exc.status = NotFound /\ pc = "done"

\* C5: with the endpoint unset or empty no remote call is ever made and the
\* process ends by SystemExit at configuration.
C5_NoCallWithoutEndpoint ==
    (endpoint = None \/ endpoint = "") =>
      /\ calls = NoCalls
      /\ turn = NoTurn
      /\ thread = <<>>
      /\ agent = "none" /\ threadId = "none"
      /\ pc \in {"config", "done"}
      /\ pc = "done" => exit = "SystemExit"

\* C5 witness: the process ended on an empty endpoint.
C5_Witness == endpoint = "" /\ pc = "done" /\ exit = "SystemExit"

\* C6: an interrupt raised while the loop reads input or processes a turn
\* goes straight to the finally block: no handler of the turn takes it, the
\* rest of the turn is not executed, no further turn starts, and the cleanup
\* step is the only thing that follows (one delete call for a new agent).
C6_InterruptExits ==
    /\ [][(pc \in {"input", "append", "run", "wait", "show"}
           /\ exc'.kind = "KeyboardInterrupt") =>
            /\ pc' = "cleanup"
            /\ trigger' = "interrupt"
            /\ lastPrint' = Msg("ctrl_c", <<>>)
            /\ exit' = "running"
            /\ thread' = thread
            /\ calls' = calls
            /\ turn'.append = turn.append + (IF pc = "append" THEN 1 ELSE 0)
            /\ turn'.run = turn.run + (IF pc = "run" THEN 1 ELSE 0)
            /\ turn'.show = turn.show + (IF pc = "show" THEN 1 ELSE 0)]_vars
    /\ [][trigger = "interrupt" =>
            /\ pc = "cleanup" /\ pc' = "done"
            /\ turn' = turn /\ thread' = thread /\ inputs' = inputs
            /\ calls' = [calls EXCEPT !.delete =
                            IF createdNew THEN <<agent>> ELSE <<>>]]_vars

\* C6 witness: an interrupt during run_agent of a session with a new agent;
\* show_latest was not called and the agent was deleted.
C6_Witness ==
    /\ trigger = "interrupt" /\ pc = "done"
    /\ turn.appendOk /\ turn.run = 1 /\ turn.runStatus = "raised" /\ turn.show = 0
    /\ createdNew /\ calls.delete = <<"asst_new">>
    /\ exit = "normal"

\* C7: a trimmed line equal to "q" or "Q" leaves the loop; no append, run or
\* show_latest call is made for it, then or later.
C7_QuitNotProcessed ==
    /\ [][(pc = "input" /\ inputs' = inputs + 1
           /\ userText' \in {<<"q">>, <<"Q">>}) =>
            /\ pc' = "cleanup"
            /\ trigger' = "q"
            /\ lastPrint' = Msg("quit", <<>>)
            /\ thread' = thread
            /\ turn' = NoTurn
            /\ calls' = calls]_vars
    /\ [][trigger = "q" => turn' = turn /\ thread' = thread]_vars
    /\ [](trigger = "q" => TurnCalls = 0 /\ pc \in {"cleanup", "done"})

\* C7 witness: "Q" typed after a turn that put a message into the thread.
C7_Witness ==
    trigger = "q" /\ userText = <<"Q">> /\ thread # <<>> /\ pc = "done"

\* C8: a line that is empty after trimming makes no remote call, leaves the
\* thread as it is and leaves the loop waiting for input.
C8_EmptyLineSkipped ==
    /\ [][(pc = "input" /\ inputs' = inputs + 1 /\ userText' = <<>>) =>
            /\ pc' = "input"
            /\ thread' = thread
            /\ calls' = calls
            /\ turn' = NoTurn
            /\ trigger' = "none"
            /\ exit' = "running"
            /\ lastPrint' = lastPrint]_vars
    /\ []((inputs > 0 /\ userText = <<>>) => TurnCalls = 0)

\* C8 witness: an empty line read after a turn that put a message into the
\* thread; the loop waits again.
C8_Witness ==
    pc = "input" /\ inputs > 0 /\ userText = <<>> /\ thread # <<>>

\* C9: when create_and_process returns a run in status "failed", run_agent
\* raises RuntimeError carrying the run's last_error and does not return;
\* when the run is "completed", run_agent returns.
C9_FailedRunRaises ==
    [][pc = "wait" =>
         /\ turn'.runStatus = "failed" =>
              /\ ~turn'.runReturned
              /\ pc' # "show"
              /\ turn'.lastError \in LastErrors
              /\ exc' = [kind |-> "RuntimeError", status |-> 0,
                         msg |-> turn'.lastError]
         /\ turn'.runStatus = "completed" =>
              /\ turn'.runReturned
              /\ pc' = "show"
              /\ exc' = NoExc]_vars

\* C9 witness: a failed run whose last_error the raised error carries.
C9_Witness ==
    /\ turn.runStatus = "failed" /\ turn.lastError = "rate_limit_exceeded"
    /\ exc.kind = "RuntimeError" /\ exc.msg = "rate_limit_exceeded"
    /\ ~turn.runReturned

\* C10: whatever error delete_agent raises, safe_delete_agent returns to
\* main: a 404 (or a "no assistant" message) is reported as already absent,
\* any other service error as a warning, any other error as unexpected; one
\* delete call was made and the shutdown message follows.
C10_DeleteNeverRaises ==
    [][(pc = "cleanup" /\ createdNew /\ IsException(exc')) =>
         /\ pc' = "done"
         /\ exit' = "normal"
         /\ lastPrint' = Msg("shutdown", <<>>)
         /\ calls'.delete = <<agent>>
         /\ cleanupPrint' =
              IF exc'.kind = "HttpResponseError"
              THEN IF exc'.status = NotFound \/ exc'.msg = "No assistant found"
                   THEN "already_absent"
                   ELSE "delete_warning"
              ELSE "delete_unexpected"]_vars

\* C10 witness: the delete call reported not-found and the session still
\* ended with the shutdown message.
C10_Witness ==
    /\ pc = "done" /\ exc.kind = "HttpResponseError" /\ exc.status = NotFound
    /\ cleanupPrint = "already_absent"
    /\ Len(calls.delete) = 1
    /\ lastPrint.kind = "shutdown"

\* show_latest has returned (in FetchSpec: on the thread of the initial state).
Fetched == turn.show = 1 /\ exc = NoExc /\ pc = "input"

\* The number of text segments of each message of the thread.
SegCounts == [i \in 1..Len(thread) |-> Len(thread[i].segs)]

\* C11: fetch_messages gives one text for every message that has a text
\* segment, namely its last segment, in creation order (oldest first), and
\* nothing for a message without text.
C11_FetchLastSegments ==
    Fetched =>
      LET out == shown.messages
          bearing == {i \in 1..Len(thread) : thread[i].segs # <<>>}
          Rank(i) == Cardinality({j \in bearing : j <= i})
      IN  /\ Len(out) = Cardinality(bearing)
          /\ \A i \in bearing :
               out[Rank(i)] = thread[i].segs[Len(thread[i].segs)]

\* C11 witness: the messages [a,b], [], [c,d,e] give [b,e].
C11_Witness ==
    /\ Fetched
    /\ SegCounts = <<2, 0, 3>>
    /\ shown.messages = <<SegText(1, 2), SegText(3, 3)>>

\* C12: show_latest returns "(no messages)" when fetch_messages gave an empty
\* list and otherwise the last element of the list, unchanged; what it prints
\* is what it returns.
C12_LatestOrPlaceholder ==
    Fetched =>
      /\ shown.messages = <<>> => shown.latest = <<"(no messages)">>
      /\ shown.messages # <<>> =>
           shown.latest = shown.messages[Len(shown.messages)]
      /\ lastPrint = Msg("reply", shown.latest)

\* C12 witness: a thread whose messages hold no text gives the placeholder.
C12_Witness ==
    /\ Fetched
    /\ Len(thread) = 2
    /\ shown.messages = <<>>
    /\ lastPrint = Msg("reply", <<"(no messages)">>)

\* C13: when show_latest has printed in a turn (so run_agent returned
\* normally), the text printed is the last text segment of a message with
\* role agent that the run of this turn added to the thread.
C13_PrintsAgentReply ==
    (pc = "input" /\ turn.show = 1 /\ exc = NoExc /\ turn.runReturned) =>
      \E i \in (Len(turn.seen) + 1)..Len(thread) :
        /\ thread[i].role = "agent"
        /\ thread[i].segs # <<>>
        /\ lastPrint = Msg("reply", thread[i].segs[Len(thread[i].segs)])

\* C14 as stated: at most one run is outstanding on the thread, and no
\* append, run or fetch call is issued while a run is outstanding.
C14_NoCallWhileRunActive ==
    /\ runs.active <= 1
    /\ pc \in {"append", "run", "show"} => runs.active = 0

\* C14 amended: the runs outstanding on the thread are the run that
\* run_agent is waiting for, if any, and the runs whose wait raised (they
\* are not cancelled); as long as no wait has raised, at most one run is
\* outstanding, and no append, run or fetch call is issued while it is.
C14_OneRunUnlessAbandoned ==
    /\ runs.active = runs.abandoned + (IF pc = "wait" THEN 1 ELSE 0)
    /\ runs.abandoned <= inputs
    /\ runs.abandoned = 0 =>
         /\ runs.active <= 1
         /\ pc \in {"append", "run", "show"} => runs.active = 0

\* C14 witness: the run of the second turn is outstanding, the run of the
\* first turn has ended, and nothing else is.
C14_Witness ==
    /\ pc = "wait" /\ Len(sent) = 2
    /\ runs = [active |-> 1, abandoned |-> 0]
    /\ Len(thread) = 3

\* C15: a process that has ended after ensure_agent created an agent has
\* called delete_agent for it.
C15_CreatedAgentDeleted ==
    (pc = "done" /\ createdNew) => calls.delete = <<agent>>

\* C16: in a turn the run is created only after that turn's append returned,
\* and show_latest is called only after run_agent returned; a failed append
\* leaves the turn without run and show, a failed or raising run without show.
C16_TurnCallsGated ==
    /\ turn.append <= 1 /\ turn.run <= 1 /\ turn.show <= 1
    /\ turn.run > 0 => turn.append = 1 /\ turn.appendOk
    /\ turn.show > 0 =>
         /\ turn.run = 1 /\ turn.runReturned
         /\ turn.runStatus \in RunStatuses \ {"failed"}
    /\ pc \in {"run", "wait"} => turn.appendOk /\ turn.show = 0
    /\ pc = "show" => turn.runReturned /\ turn.show = 0
    /\ (turn.append = 1 /\ ~turn.appendOk) => turn.run = 0 /\ turn.show = 0
    /\ turn.runStatus \in {"failed", "raised"} =>
         ~turn.runReturned /\ turn.show = 0
    /\ pc \in {"wait", "show"} =>
         /\ turn.seen # <<>>
         /\ turn.seen[Len(turn.seen)] = [role |-> "user", segs |-> <<userText>>]

\* C16 witness: a turn whose run raised has ended without show_latest.
C16_Witness ==
    /\ TurnDone /\ turn.appendOk /\ turn.run = 1 /\ turn.runStatus = "raised"
    /\ turn.show = 0 /\ exc.kind = "HttpResponseError"

\* The segments of the messages with role user, in thread order.
UserSegs(th) ==
    LET u == SelectSeq(th, LAMBDA m : m.role = "user")
    IN  [i \in 1..Len(u) |-> u[i].segs]

\* C17: the thread only grows; its user messages are the trimmed lines whose
\* append returned, each as one text, unchanged and in input order; a run
\* is given all of them, those of turns whose run failed included.
C17_ThreadAppendOnly ==
    /\ [][/\ Len(thread') >= Len(thread)
          /\ SubSeq(thread', 1, Len(thread)) = thread]_vars
    /\ [](UserSegs(thread) = [i \in 1..Len(sent) |-> <<sent[i]>>])
    /\ [](pc = "wait" => UserSegs(turn.seen) = [i \in 1..Len(sent) |-> <<sent[i]>>])

\* C17 witness: the run of the second turn is given the message of the
\* first turn, whose run failed.
C17_Witness ==
    /\ pc = "wait" /\ Len(sent) = 2
    /\ lastPrint.kind = "unexpected_error" /\ lastPrint.text = <<"server_error">>
    /\ turn.seen = << [role |-> "user", segs |-> <<sent[1]>>],
                      [role |-> "user", segs |-> <<sent[2]>>] >>
    /\ sent[2] = <<"a", " ", "B">>

====
